---------------------------- MODULE Spec2Model ----------------------------
(***************************************************************************)
(* Model of the spreadsheet-to-record normalizer of the scraping tool:     *)
(* core/utils.py, parse_excel_to_json.                                     *)
(*                                                                         *)
(* Text is a sequence of one-character strings, so that str.strip,         *)
(* str.lower, int(...) and the format f"{x:018d}" are computed character   *)
(* by character.  Python integers are arbitrary precision: an integer is a *)
(* sign and a sequence of decimal digits with no leading zero.             *)
(***************************************************************************)
EXTENDS Naturals, Sequences, FiniteSets, TLC

-----------------------------------------------------------------------------
(* Bounds of the model *)

\* at most this many data rows under the header row of a sheet
MaxRows == 2

-----------------------------------------------------------------------------
(* Characters and Python's str methods *)

Digits == {"0", "1", "2", "3", "4", "5", "6", "7", "8", "9"}

Whitespace == {" "}

UpperLetters ==
  << "A", "B", "C", "D", "E", "F", "G", "H", "I", "J", "K", "L", "M",
     "N", "O", "P", "Q", "R", "S", "T", "U", "V", "W", "X", "Y", "Z", "Í" >>

LowerLetters ==
  << "a", "b", "c", "d", "e", "f", "g", "h", "i", "j", "k", "l", "m",
     "n", "o", "p", "q", "r", "s", "t", "u", "v", "w", "x", "y", "z", "í" >>

\* str.lower on one character
LowerChar(c) ==
  IF \E i \in 1..Len(UpperLetters) : UpperLetters[i] = c
  THEN LowerLetters[CHOOSE i \in 1..Len(UpperLetters) : UpperLetters[i] = c]
  ELSE c

\* str.lower
Lower(s) == [i \in 1..Len(s) |-> LowerChar(s[i])]

RECURSIVE LStrip(_)
\* str.lstrip
LStrip(s) ==
  IF s # << >> /\ Head(s) \in Whitespace THEN LStrip(Tail(s)) ELSE s

RECURSIVE RStrip(_)
\* str.rstrip
RStrip(s) ==
  IF s # << >> /\ s[Len(s)] \in Whitespace
  THEN RStrip(SubSeq(s, 1, Len(s) - 1))
  ELSE s

\* str.strip
Strip(s) == RStrip(LStrip(s))

AllDigits(s) == s # << >> /\ \A i \in 1..Len(s) : s[i] \in Digits

RECURSIVE DropZeros(_)
\* the digits of a magnitude without leading zeros ("0" for zero)
DropZeros(d) ==
  IF Len(d) > 1 /\ Head(d) = "0" THEN DropZeros(Tail(d)) ELSE d

RECURSIVE Zeros(_)
\* "0" * k
Zeros(k) == IF k = 0 THEN << >> ELSE <<"0">> \o Zeros(k - 1)

-----------------------------------------------------------------------------
(* Python values: None, NaN, int, numpy.int64, float, str *)

None == [t |-> "None"]
NaN == [t |-> "nan"]
\* a Python int: isinstance(v, int)
PyInt(neg, mag) ==
  [t |-> "int", neg |-> neg /\ DropZeros(mag) # <<"0">>, mag |-> DropZeros(mag)]
\* a numpy.int64 scalar: not an instance of int or float
NpInt(neg, mag) ==
  [t |-> "npint", neg |-> neg /\ DropZeros(mag) # <<"0">>, mag |-> DropZeros(mag)]
\* a float (Python float or numpy.float64, a subclass of float), sign, integer
\* part and fractional digits
PyFloat(neg, ip, fp) == [t |-> "float", neg |-> neg, mag |-> DropZeros(ip), fp |-> fp]
PyStr(s) == [t |-> "str", s |-> s]
InfText == <<"i", "n", "f">>
\* float('inf') and float('-inf'): a float without digits
PyInf(neg) == [t |-> "float", neg |-> neg, mag |-> InfText, fp |-> << >>]
\* an exception that leaves the expression instead of a value
Raised(e) == [t |-> "raise", e |-> e]

IsStr(v) == v.t = "str"
IsInf(v) == v.t = "float" /\ v.mag = InfText
IsRaised(v) == v.t = "raise"

Sign(neg) == IF neg THEN <<"-">> ELSE << >>

\* str(v), the text of a Python value
StrOf(v) ==
  CASE v.t = "None" -> <<"N", "o", "n", "e">>
    [] v.t = "nan" -> <<"n", "a", "n">>
    [] v.t \in {"int", "npint"} -> Sign(v.neg) \o v.mag
    [] v.t = "float" ->
         IF IsInf(v) THEN Sign(v.neg) \o InfText
         ELSE Sign(v.neg) \o v.mag \o <<".">> \o v.fp
    [] v.t = "str" -> v.s

\* the text s is accepted by int(s): optional surrounding whitespace, an
\* optional sign and decimal digits
IsIntText(s) ==
  LET b == Strip(s)
      d == IF b # << >> /\ Head(b) \in {"-", "+"} THEN Tail(b) ELSE b
  IN  AllDigits(d)

\* int(s) for a text int accepts
IntOfText(s) ==
  LET b == Strip(s)
      signed == b # << >> /\ Head(b) \in {"-", "+"}
      d == IF signed THEN Tail(b) ELSE b
  IN  PyInt(signed /\ Head(b) = "-", d)

\* int(v): [ok |-> TRUE, v |-> the int], or ok FALSE and the exception
\* Python raises: ValueError for a text that is no integer, OverflowError
\* for an infinite float, TypeError for None.  int of a float truncates
\* toward zero.
IntOf(v) ==
  CASE v.t \in {"int", "npint"} ->
         [ok |-> TRUE, v |-> PyInt(v.neg, v.mag), err |-> "none"]
    [] v.t = "float" ->
         IF IsInf(v) THEN [ok |-> FALSE, v |-> None, err |-> "OverflowError"]
         ELSE [ok |-> TRUE, v |-> PyInt(v.neg, v.mag), err |-> "none"]
    [] v.t = "str" ->
         IF IsIntText(v.s) THEN [ok |-> TRUE, v |-> IntOfText(v.s), err |-> "none"]
         ELSE [ok |-> FALSE, v |-> None, err |-> "ValueError"]
    [] OTHER -> [ok |-> FALSE, v |-> None, err |-> "TypeError"]

-----------------------------------------------------------------------------
(* The spreadsheet: header cells and data cells as the reader hands them   *)
(* to pandas                                                               *)

EmptyCell == [k |-> "empty"]
\* a numeric cell: sign, integer digits, fractional digits (<< >> when the
\* number is integral)
NumCell(neg, ip, fp) == [k |-> "num", neg |-> neg, ip |-> ip, fp |-> fp]
TextCell(s) == [k |-> "text", s |-> s]

\* texts pandas reads as missing values (keep_default_na)
NaMarkers ==
  { << >>, <<"n", "a", "n">>, <<"N", "a", "N">>, <<"N", "A">>,
    <<"n", "u", "l", "l">>, <<"N", "U", "L", "L">>, <<"N", "o", "n", "e">>,
    <<"N", "/", "A">>, <<"#", "N", "/", "A">> }

\* an empty/NaN-equivalent source cell
IsNaCell(c) == c.k = "empty" \/ (c.k = "text" /\ c.s \in NaMarkers)

\* the Python object of a non-missing cell: an integral number is an int,
\* any other number a float, a text a str
CellValue(c) ==
  CASE c.k = "num" ->
         IF c.fp = << >> THEN PyInt(c.neg, c.ip) ELSE PyFloat(c.neg, c.ip, c.fp)
    [] c.k = "text" -> PyStr(c.s)
    [] OTHER -> NaN

\* the text a cell shows
CellText(c) == IF c.k = "empty" THEN << >> ELSE StrOf(CellValue(c))

\* the text of a number: sign, digits, an optional "." and digits, with
\* optional surrounding whitespace; "inf" in any case is the infinite float
IsNumText(s) ==
  LET b == Strip(s)
      d == IF b # << >> /\ Head(b) \in {"-", "+"} THEN Tail(b) ELSE b
      dots == {i \in 1..Len(d) : d[i] = "."}
  IN  \/ AllDigits(d)
      \/ Lower(d) = InfText
      \/ \E i \in dots :
           /\ dots = {i}
           /\ AllDigits(SubSeq(d, 1, i - 1))
           /\ AllDigits(SubSeq(d, i + 1, Len(d)))

\* the number a numeric text parses to (type inference of a column)
NumOfText(s) ==
  LET b == Strip(s)
      signed == b # << >> /\ Head(b) \in {"-", "+"}
      neg == signed /\ Head(b) = "-"
      d == IF signed THEN Tail(b) ELSE b
      dots == {i \in 1..Len(d) : d[i] = "."}
  IN  IF Lower(d) = InfText THEN PyInf(neg)
      ELSE IF dots = {} THEN PyInt(neg, d)
      ELSE LET i == CHOOSE i \in dots : TRUE
           IN  PyFloat(neg, SubSeq(d, 1, i - 1), SubSeq(d, i + 1, Len(d)))

\* int -> float64 (the magnitude is kept; rounding above 2^53 is not modelled)
ToFloat(v) == IF v.t = "float" THEN v ELSE PyFloat(v.neg, v.mag, <<"0">>)

\* the conversion of one value of a column that type inference makes numeric
ToNumber(v) == IF v.t = "str" THEN NumOfText(v.s) ELSE v

\* One column as read_excel loads it: [dtype, vals].  A column named in the
\* dtype mapping keeps every non-missing cell as its text.  Any other column
\* is inferred: numeric if every non-missing cell is a number or the text of
\* one (int64 only without missing cells and fractions, else float64 with
\* the integers converted), object otherwise.
ReadColumn(cells, asString) ==
  LET raw == [i \in 1..Len(cells) |->
                IF IsNaCell(cells[i]) THEN NaN ELSE CellValue(cells[i])]
      present == {i \in 1..Len(cells) : raw[i] # NaN}
      numeric == \A i \in present : raw[i].t # "str" \/ IsNumText(raw[i].s)
      num == [i \in 1..Len(cells) |->
                IF raw[i] = NaN THEN NaN ELSE ToNumber(raw[i])]
      allInt == present = 1..Len(cells) /\ \A i \in present : num[i].t = "int"
  IN  IF asString
      THEN [dtype |-> "object",
            vals |-> [i \in 1..Len(cells) |->
                        IF raw[i] = NaN THEN NaN ELSE PyStr(StrOf(raw[i]))]]
      ELSE IF ~numeric \/ cells = << >> THEN [dtype |-> "object", vals |-> raw]
      ELSE IF allInt THEN [dtype |-> "int64", vals |-> num]
      ELSE [dtype |-> "float64",
            vals |-> [i \in 1..Len(cells) |->
                        IF num[i] = NaN THEN NaN ELSE ToFloat(num[i])]]

-----------------------------------------------------------------------------
(* Column names and report types of the program *)

ColArticulo == <<"A", "r", "t", "í", "c", "u", "l", "o">>
ColArticuloID == ColArticulo \o <<" ", "I", "D">>
ColN == <<"n">>
TotalToken == <<"t", "o", "t", "a", "l">>
NanText == <<"n", "a", "n">>

\* the width of f"{...:018d}"
PadWidth == 18

\* report_type as the callers pass it: "None" is the absent argument, "otro"
\* an unrecognized one
ReportTypes == {"mermasventas", "catalogados", "stockdetalle", "None", "otro"}

\* string_columns without the Artículo entry: the column is left to inference
StringColumnsWithoutArticulo(rt) ==
  IF rt = "mermasventas" THEN {ColArticuloID} ELSE {}

\* string_columns, the dtype mapping's keys
StringColumns(rt) ==
  {ColArticulo} \cup
    (IF rt = "mermasventas" THEN {ColArticuloID, ColArticulo} ELSE {})

-----------------------------------------------------------------------------
(* The DataFrame: stripped column names, row labels, and the columns *)

EmptyFrame == [columns |-> << >>, index |-> << >>, cols |-> << >>]

\* pd.read_excel(path, header=2, dtype=string_columns): the dtype mapping is
\* matched against the header cells as they stand in the file
ReadExcel(sh, rt) ==
  [columns |-> sh.headers,
   index |-> [i \in 1..Len(sh.rows) |-> i - 1],
   cols |-> [j \in 1..Len(sh.headers) |->
               ReadColumn([i \in 1..Len(sh.rows) |-> sh.rows[i][j]],
                          sh.headers[j] \in StringColumns(rt))]]

\* df.columns.str.strip()
StripColumns(d) ==
  [d EXCEPT !.columns = [j \in 1..Len(d.columns) |-> Strip(d.columns[j])]]

\* The row at position r as a Series (df.iloc[r], df.iterrows): the values
\* take the common dtype of the columns.  All int64: numpy.int64 scalars;
\* all numeric: float64; otherwise Python objects.
RowSeries(d, r) ==
  LET dts == {d.cols[j].dtype : j \in 1..Len(d.cols)}
  IN  [j \in 1..Len(d.cols) |->
         LET v == d.cols[j].vals[r]
         IN  IF dts = {"int64"} THEN NpInt(v.neg, v.mag)
             ELSE IF dts \subseteq {"int64", "float64"}
                  THEN IF v = NaN THEN NaN ELSE ToFloat(v)
             ELSE v]

\* df.iloc[1:].reset_index(drop=True)
DropFirstRow(d) ==
  [d EXCEPT !.index = [i \in 1..(Len(d.index) - 1) |-> i - 1],
            !.cols = [j \in 1..Len(d.cols) |->
                        [d.cols[j] EXCEPT !.vals = Tail(d.cols[j].vals)]]]

\* first_value without .strip()
FirstValueNoStrip(d) ==
  LET first_row == RowSeries(d, 1)
  IN  IF Len(first_row) > 0 THEN Lower(StrOf(first_row[1])) ELSE << >>

\* first_value of the first row, lines 48-50
FirstValue(d) ==
  LET first_row == RowSeries(d, 1)
  IN  IF Len(first_row) > 0 THEN Lower(Strip(StrOf(first_row[1]))) ELSE << >>

RECURSIVE SkipTotalRepeated(_)
\* the skip as a loop: every leading "Total" row is dropped
SkipTotalRepeated(d) ==
  IF Len(d.index) > 0 /\ FirstValue(d) = TotalToken
  THEN SkipTotalRepeated(DropFirstRow(d))
  ELSE d

\* lines 46-54: skip the first row if it is exactly "Total"
SkipTotal(d) ==
  IF Len(d.index) > 0 /\ FirstValue(d) = TotalToken THEN DropFirstRow(d) ELSE d

-----------------------------------------------------------------------------
(* The per-cell transform and the record of a row *)

RECURSIVE DigitsOf(_)
\* the decimal digits of a natural number
DigitsOf(n) ==
  LET d == <<"0", "1", "2", "3", "4", "5", "6", "7", "8", "9">>[(n % 10) + 1]
  IN  IF n < 10 THEN <<d>> ELSE DigitsOf(n \div 10) \o <<d>>

\* the width counted without the sign: "-" + f"{abs(i):018d}"
Format018SignOutside(i) ==
  Sign(i.neg) \o
    Zeros(IF Len(i.mag) < PadWidth THEN PadWidth - Len(i.mag) ELSE 0) \o i.mag

\* f"{i:018d}": the sign, then zeros up to the width, then the digits; a
\* longer number is not cut
Format018(i) ==
  LET used == Len(Sign(i.neg)) + Len(i.mag)
  IN  Sign(i.neg) \o Zeros(IF used < PadWidth THEN PadWidth - used ELSE 0) \o i.mag

\* pd.isna(value) or value == 'nan'
IsMissing(v) == v = NaN \/ v = None \/ v = PyStr(NanText)

\* isinstance(value, (int, float))
IsNumber(v) == v.t \in {"int", "float"}

\* the exceptions the inner try of lines 79-87 catches
CaughtInPad == {"ValueError", "TypeError"}

\* lines 77-89: Artículo ID of Mermas y Ventas.  An exception of int() that
\* is neither ValueError nor TypeError leaves the transform.
PadArticuloID(v) ==
  LET first == IF IsNumber(v) THEN IntOf(v)
               ELSE [ok |-> TRUE, v |-> v, err |-> "none"]
      second == IntOf(first.v)
  IN  IF ~first.ok
      THEN IF first.err \in CaughtInPad THEN PyStr(Strip(StrOf(v)))
           ELSE Raised(first.err)
      ELSE IF second.ok THEN PyStr(Format018(second.v))
      ELSE IF second.err \in CaughtInPad THEN PyStr(Strip(StrOf(first.v)))
      ELSE Raised(second.err)

\* the transform with the report type test of line 75 left out
CellTransformPadAnyReport(v, column, rt) ==
  IF IsMissing(v) THEN None
  ELSE IF column = ColArticulo THEN PyStr(Strip(StrOf(v)))
  ELSE IF column = ColArticuloID THEN PadArticuloID(v)
  ELSE IF IsNumber(v) THEN v
  ELSE PyStr(Strip(StrOf(v)))

\* the transform with the missing-value test of line 70 after the column rules
CellTransformColumnsFirst(v, column, rt) ==
  IF column = ColArticulo THEN PyStr(Strip(StrOf(v)))
  ELSE IF column = ColArticuloID /\ rt = "mermasventas" THEN PadArticuloID(v)
  ELSE IF IsMissing(v) THEN None
  ELSE IF IsNumber(v) THEN v
  ELSE PyStr(Strip(StrOf(v)))

\* lines 69-95: the emitted value of one cell
CellTransform(v, column, rt) ==
  IF IsMissing(v) THEN None
  ELSE IF column = ColArticulo THEN PyStr(Strip(StrOf(v)))
  ELSE IF column = ColArticuloID /\ rt = "mermasventas" THEN PadArticuloID(v)
  ELSE IF IsNumber(v) THEN v
  ELSE PyStr(Strip(StrOf(v)))

\* row_dict[key] = val on an insertion-ordered dict
DictSet(dict, key, val) ==
  IF \E p \in 1..Len(dict) : dict[p].key = key
  THEN [p \in 1..Len(dict) |->
          IF dict[p].key = key THEN [key |-> key, val |-> val] ELSE dict[p]]
  ELSE Append(dict, [key |-> key, val |-> val])

\* row[column] is one value only if the stripped name is unique; with a
\* repeated name it is a Series and pd.isna(value) raises ValueError
Ambiguous(d) ==
  \E j, k \in 1..Len(d.columns) : j # k /\ d.columns[j] = d.columns[k]

RECURSIVE FillRow(_, _, _, _, _)
\* lines 67-97: the columns j.. of the row added to row_dict
FillRow(dict, d, row, j, rt) ==
  IF j > Len(d.columns) THEN dict
  ELSE FillRow(DictSet(dict, d.columns[j], CellTransform(row[j], d.columns[j], rt)),
               d, row, j + 1, rt)

\* lines 60-99: the record of the row at position r
RowDict(d, r, rt) ==
  FillRow(<<[key |-> ColN, val |-> PyInt(FALSE, DigitsOf(d.index[r] + 1))]>>,
          d, RowSeries(d, r), 1, rt)

\* the columns of the row at position r whose transform raises
RaisingColumns(d, r, rt) ==
  {j \in 1..Len(d.columns) :
     IsRaised(CellTransform(RowSeries(d, r)[j], d.columns[j], rt))}

\* the loop body raises at the row at position r
RowRaises(d, r, rt) == Ambiguous(d) \/ RaisingColumns(d, r, rt) # {}

\* the exception of that row: ValueError of the truth value of a Series,
\* else what the first raising column raised
RowError(d, r, rt) ==
  IF Ambiguous(d) THEN "ValueError"
  ELSE LET j == CHOOSE j \in RaisingColumns(d, r, rt) :
                  \A k \in RaisingColumns(d, r, rt) : j <= k
       IN  CellTransform(RowSeries(d, r)[j], d.columns[j], rt).e

-----------------------------------------------------------------------------
(* The input sheets of the model *)

ColDia == <<"D", "í", "a">>
ColDiaLeading == <<" ">> \o ColDia
ColArticuloIDTrailing == ColArticuloID \o <<" ">>
ColCantidad == <<"C", "a", "n", "t", "i", "d", "a", "d">>

TxtTotalPadded == <<" ", "T", "o", "t", "a", "l", " ">>
TxtTotalSales == <<"T", "o", "t", "a", "l", " ", "S", "a", "l", "e", "s">>
TxtLunes == <<"L", "u", "n", "e", "s">>
Txt00012 == <<"0", "0", "0", "1", "2">>
TxtBig19 == <<"1", "0", "0", "0", "0", "0", "0", "0", "0", "0", "0", "0", "0", "0", "0", "0", "0", "4", "5">>
TxtAB1 == <<"A", "B", "-", "1">>

Num45 == NumCell(FALSE, <<"4", "5">>, << >>)
Num5 == NumCell(FALSE, <<"5">>, << >>)

\* The layouts: per column the header cell as it stands in the file and the
\* cells the model draws for it
Layouts ==
  { << [header |-> ColDia,
        cells |-> {TextCell(TxtTotalPadded), TextCell(TxtTotalSales), TextCell(TxtLunes)}],
       [header |-> ColArticulo,
        cells |-> {TextCell(Txt00012), TextCell(<<" ", "0", "1", "2", " ">>), Num45, EmptyCell,
                   TextCell(NanText)}] >>,
    << [header |-> ColArticuloID,
        cells |-> {Num45, NumCell(FALSE, <<"4", "5">>, <<"7">>), NumCell(TRUE, <<"4", "5">>, << >>), TextCell(TxtBig19), TextCell(TxtAB1),
                   EmptyCell}],
       [header |-> ColCantidad, cells |-> {Num5, EmptyCell}] >>,
    << [header |-> <<" ">> \o ColDia \o <<" ">>,
        cells |-> {TextCell(<<"T", "O", "T", "A", "L">>), TextCell(<<"s", "u", "b", "t", "o", "t", "a", "l">>)}],
       [header |-> ColCantidad,
        cells |-> {Num5, NumCell(FALSE, <<"5">>, <<"5">>), EmptyCell, TextCell(<<"x">>)}] >>,
    << [header |-> ColCantidad, cells |-> {Num5, NumCell(FALSE, <<"5">>, <<"5">>)}],
       [header |-> ColN, cells |-> {NumCell(FALSE, <<"7">>, << >>), TextCell(<<"x">>), EmptyCell}] >>,
    << [header |-> ColDia, cells |-> {TextCell(TxtLunes)}],
       [header |-> ColArticuloIDTrailing,
        cells |-> {Num45, NumCell(FALSE, <<"4", "5">>, <<"7">>), EmptyCell, TextCell(InfText)}] >>,
    << [header |-> ColDia, cells |-> {TextCell(TxtLunes)}],
       [header |-> ColDiaLeading, cells |-> {TextCell(TxtLunes), EmptyCell}] >>,
    << [header |-> ColDia, cells |-> {TextCell(TxtLunes)}],
       [header |-> ColArticulo \o <<" ">>,
        cells |-> {TextCell(Txt00012), TextCell(TxtAB1)}] >> }

AllCells == UNION {l[j].cells : l \in Layouts, j \in 1..2}

\* the data rows a layout allows
RowsOf(l) == {r \in [1..Len(l) -> AllCells] : \A j \in 1..Len(l) : r[j] \in l[j].cells}

\* a workbook read_excel can load: a header row and the data rows
Workbook(headers, rows) == [kind |-> "xlsx", headers |-> headers, rows |-> rows]

\* the sheets: a header row and up to MaxRows data rows
Sheets ==
  UNION {{Workbook([j \in 1..Len(l) |-> l[j].header], rs) :
            rs \in [1..n -> RowsOf(l)]} : l \in Layouts, n \in 0..MaxRows}

\* excel_file_path names no file: read_excel raises FileNotFoundError
MissingFile == [kind |-> "missing", headers |-> << >>, rows |-> << >>]
\* the file is no workbook: read_excel raises ValueError
CorruptFile == [kind |-> "corrupt", headers |-> << >>, rows |-> << >>]

\* what excel_file_path can name
Files == Sheets \cup {MissingFile, CorruptFile}

\* The files of the repeated calls and of the downloads directory
SheetLunes45 == Workbook(<<ColDia, ColArticuloID>>, <<<<TextCell(TxtLunes), Num45>>>>)
SheetTwoRows ==
  Workbook(<<ColArticuloID, ColCantidad>>,
           <<<<Num45, Num5>>, <<TextCell(TxtAB1), EmptyCell>>>>)
SheetNoRows == Workbook(<<ColDia, ColCantidad>>, << >>)
SheetDuplicate ==
  Workbook(<<ColDia, ColDiaLeading>>, <<<<TextCell(TxtLunes), TextCell(TxtLunes)>>>>)
SheetInfinite ==
  Workbook(<<ColDia, ColArticuloIDTrailing>>,
           <<<<TextCell(TxtLunes), Num45>>, <<TextCell(TxtLunes), TextCell(InfText)>>>>)
CallFiles ==
  {SheetLunes45, SheetTwoRows, SheetNoRows, SheetDuplicate, SheetInfinite,
   MissingFile, CorruptFile}
\* the report types of the repeated calls
CallTypes == {"mermasventas", "None"}

-----------------------------------------------------------------------------
(* json.dump(json_data, f, ensure_ascii=False, indent=2, default=str) *)

Quote == <<"\"">>
Backslash == <<"\\">>
Newline == <<"\n">>

RECURSIVE JsonEscape(_)
\* the characters of a text inside a JSON string: the quote and the
\* backslash are escaped, non-ASCII characters are written as they are
JsonEscape(s) ==
  IF s = << >> THEN << >>
  ELSE (IF <<Head(s)>> \in {Quote, Backslash} THEN Backslash ELSE << >>)
         \o <<Head(s)>> \o JsonEscape(Tail(s))

JsonString(s) == Quote \o JsonEscape(s) \o Quote

\* one value: null, a number by its repr, a text as a JSON string; a value
\* the encoder does not know goes through default=str
JsonValue(v) ==
  CASE v.t = "None" -> <<"n", "u", "l", "l">>
    [] v.t = "nan" -> <<"N", "a", "N">>
    [] v.t = "int" -> StrOf(v)
    [] v.t = "float" ->
         IF IsInf(v)
         THEN Sign(v.neg) \o <<"I", "n", "f", "i", "n", "i", "t", "y">>
         ELSE StrOf(v)
    [] v.t = "str" -> JsonString(v.s)
    [] OTHER -> JsonString(StrOf(v))

RECURSIVE JsonJoin(_, _)
\* the texts of a sequence joined by a separator
JsonJoin(texts, sep) ==
  IF texts = << >> THEN << >>
  ELSE IF Len(texts) = 1 THEN texts[1]
  ELSE texts[1] \o sep \o JsonJoin(Tail(texts), sep)

\* one record at the first indentation level
JsonObject(dict) ==
  <<"{">> \o Newline \o <<" ", " ", " ", " ">>
    \o JsonJoin([p \in 1..Len(dict) |->
                   JsonString(dict[p].key) \o <<":", " ">> \o JsonValue(dict[p].val)],
                <<",">> \o Newline \o <<" ", " ", " ", " ">>)
    \o Newline \o <<" ", " ">> \o <<"}">>

\* the text json.dump writes for the record list
JsonDump(records) ==
  IF records = << >> THEN <<"[", "]">>
  ELSE <<"[">> \o Newline \o <<" ", " ">>
         \o JsonJoin([r \in 1..Len(records) |-> JsonObject(records[r])],
                     <<",">> \o Newline \o <<" ", " ">>)
         \o Newline \o <<"]">>

-----------------------------------------------------------------------------
(* Bounds and inputs of repeated calls *)

\* at most this many calls of parse_excel_to_json in a row
MaxCalls == 2

\* output_json_path: absent, or the path of the JSON file
NoPath == "None"
JsonPath == "downloads/data.json"
OutputPaths == {NoPath, JsonPath}

\* the file at JsonPath: absent, or its text
NoOutFile == [exists |-> FALSE, text |-> << >>]
OutFile(text) == [exists |-> TRUE, text |-> text]

\* no exception was caught; an exception and the step that raised it
NoExc == [e |-> "none", at |-> "none"]
Exc(e, at) == [e |-> e, at |-> at]

Pending == [t |-> "pending"]
ListOf(records) == [t |-> "list", data |-> records]
NoCall == [t |-> "none"]
NoDir == [exists |-> FALSE, files |-> << >>]
NoResponse == [status |-> 0]

-----------------------------------------------------------------------------
(* parse_excel_to_json as a state machine *)

VARIABLES
  sheet,             \* the file at excel_file_path
  report_type,       \* the report_type argument
  output_json_path,  \* the output_json_path argument
  pc,                \* where the call stands: "idle", "read", "skip",
                     \* "convert", "done"
  df,                \* the DataFrame
  json_data,         \* the records built so far
  exc,               \* the exception an except branch caught
  result,            \* what the call returned: Pending, None, or the list
  out_file,          \* the file at JsonPath
  calls,             \* the number of calls started
  prev,              \* the call before this one: arguments and outcome
  downloads,         \* the downloads directory
  endpoint,          \* the report of the GET request
  hpc,               \* where the GET handler stands; "direct" without one
  excel_file,        \* what the file locator returned
  response,          \* the HTTP response
  posts,             \* the POST requests: acquisition run and handler
  loop,              \* the request whose code runs on the event loop thread
  retry              \* a call of wait_for_agentql_element_fast

args == <<sheet, report_type, output_json_path>>
locals == <<pc, df, json_data, exc, result>>
history == <<calls, prev>>
api == <<downloads, endpoint, hpc, excel_file, response>>
web == <<posts, loop, retry>>
vars == <<args, locals, out_file, history, api, web>>

\* a call on its own: no handler around it, no call before it
Direct ==
  /\ out_file = NoOutFile
  /\ calls = 1
  /\ prev = NoCall
  /\ downloads = NoDir
  /\ endpoint = "none"
  /\ hpc = "direct"
  /\ excel_file = None
  /\ response = NoResponse
  /\ posts = << >>
  /\ loop = "free"
  /\ retry = << >>

\* the locals at the start of a call
Entered ==
  /\ pc = "read"
  /\ df = EmptyFrame
  /\ json_data = << >>
  /\ exc = NoExc
  /\ result = Pending

\* one call without an output path, as the GET handlers make it
Init ==
  /\ sheet \in Files
  /\ report_type \in ReportTypes
  /\ output_json_path = NoPath
  /\ Entered
  /\ Direct

\* parse_excel_to_json without an output path as a function of the file and
\* the report type: None, or the list of the records of all rows
Normalize(sh, rt) ==
  IF sh.kind # "xlsx" THEN None
  ELSE LET d == SkipTotal(StripColumns(ReadExcel(sh, rt)))
       IN  IF \E r \in 1..Len(d.index) : RowRaises(d, r, rt) THEN None
           ELSE ListOf([r \in 1..Len(d.index) |-> RowDict(d, r, rt)])

\* lines 24-44: load the sheet and strip the column names
LoadFrame ==
  /\ pc = "read"
  /\ sheet.kind = "xlsx"
  /\ df' = StripColumns(ReadExcel(sheet, report_type))
  /\ pc' = "skip"
  /\ UNCHANGED <<args, json_data, exc, result, out_file, history, api, web>>

\* the except branch of a missing file returning an empty list
LoadFailsReturnsEmpty ==
  /\ pc = "read"
  /\ sheet.kind # "xlsx"
  /\ exc' = Exc(IF sheet.kind = "missing" THEN "FileNotFoundError" ELSE "ValueError",
                "read")
  /\ result' = IF sheet.kind = "missing" THEN ListOf(<< >>) ELSE None
  /\ pc' = "done"
  /\ UNCHANGED <<args, df, json_data, out_file, history, api, web>>

\* lines 36 and 112-117: read_excel raises, an except branch returns None
LoadFails ==
  /\ pc = "read"
  /\ sheet.kind # "xlsx"
  /\ exc' = Exc(IF sheet.kind = "missing" THEN "FileNotFoundError" ELSE "ValueError",
                "read")
  /\ result' = None
  /\ pc' = "done"
  /\ UNCHANGED <<args, df, json_data, out_file, history, api, web>>

\* lines 46-58: drop the first row if it is the total row; json_data = []
SkipTotalRow ==
  /\ pc = "skip"
  /\ df' = SkipTotal(df)
  /\ json_data' = << >>
  /\ pc' = "convert"
  /\ UNCHANGED <<args, exc, result, out_file, history, api, web>>

\* lines 60-99: one turn of the loop over df.iterrows()
ConvertRow ==
  /\ pc = "convert"
  /\ Len(json_data) < Len(df.index)
  /\ ~RowRaises(df, Len(json_data) + 1, report_type)
  /\ json_data' = Append(json_data, RowDict(df, Len(json_data) + 1, report_type))
  /\ UNCHANGED <<args, pc, df, exc, result, out_file, history, api, web>>

\* the except branch that hands the records built so far to the caller
ConvertFailsReturnsPartial ==
  /\ pc = "convert"
  /\ Len(json_data) < Len(df.index)
  /\ RowRaises(df, Len(json_data) + 1, report_type)
  /\ exc' = Exc(RowError(df, Len(json_data) + 1, report_type), "convert")
  /\ pc' = "done"
  /\ result' = ListOf(json_data)
  /\ UNCHANGED <<args, df, json_data, out_file, history, api, web>>

\* the output file opened for writing before the rows are converted: a
\* failing row leaves it empty
ConvertFailsTruncates ==
  /\ pc = "convert"
  /\ Len(json_data) < Len(df.index)
  /\ RowRaises(df, Len(json_data) + 1, report_type)
  /\ exc' = Exc(RowError(df, Len(json_data) + 1, report_type), "convert")
  /\ pc' = "done"
  /\ result' = None
  /\ out_file' = IF output_json_path = NoPath THEN out_file ELSE OutFile(<< >>)
  /\ UNCHANGED <<args, df, json_data, history, api, web>>

\* lines 69-87 and 115-117: the exception of a row is caught, None returned
ConvertFails ==
  /\ pc = "convert"
  /\ Len(json_data) < Len(df.index)
  /\ RowRaises(df, Len(json_data) + 1, report_type)
  /\ exc' = Exc(RowError(df, Len(json_data) + 1, report_type), "convert")
  /\ pc' = "done"
  /\ result' = None
  /\ UNCHANGED <<args, df, json_data, out_file, history, api, web>>

\* lines 101-110 without an output path: the records are returned
ReturnData ==
  /\ pc = "convert"
  /\ Len(json_data) = Len(df.index)
  /\ output_json_path = NoPath
  /\ pc' = "done"
  /\ result' = ListOf(json_data)
  /\ UNCHANGED <<args, df, json_data, exc, out_file, history, api, web>>

Next ==
  LoadFrame \/ LoadFails \/ SkipTotalRow \/ ConvertRow \/ ConvertFails \/ ReturnData

Spec == Init /\ [][Next]_vars

-----------------------------------------------------------------------------
(* Calls with an output path, one after the other *)

\* open(..., 'a'): the text is added to what the file holds
WriteJsonAppends ==
  /\ pc = "convert"
  /\ Len(json_data) = Len(df.index)
  /\ output_json_path # NoPath
  /\ out_file' = OutFile(out_file.text \o JsonDump(json_data))
  /\ pc' = "done"
  /\ result' = ListOf(json_data)
  /\ UNCHANGED <<args, df, json_data, exc, history, api, web>>

\* the file is written only if there is none yet
WriteJsonKeepsExisting ==
  /\ pc = "convert"
  /\ Len(json_data) = Len(df.index)
  /\ output_json_path # NoPath
  /\ out_file' = IF out_file.exists THEN out_file ELSE OutFile(JsonDump(json_data))
  /\ pc' = "done"
  /\ result' = ListOf(json_data)
  /\ UNCHANGED <<args, df, json_data, exc, history, api, web>>

\* lines 104-110: the file is opened with 'w', the records are written and
\* returned
WriteJson ==
  /\ pc = "convert"
  /\ Len(json_data) = Len(df.index)
  /\ output_json_path # NoPath
  /\ out_file' = OutFile(JsonDump(json_data))
  /\ pc' = "done"
  /\ result' = ListOf(json_data)
  /\ UNCHANGED <<args, df, json_data, exc, history, api, web>>

\* line 106 raises: the file is as it was, an except branch returns None
OpenFails ==
  /\ pc = "convert"
  /\ Len(json_data) = Len(df.index)
  /\ output_json_path # NoPath
  /\ \E e \in {"FileNotFoundError", "PermissionError"} : exc' = Exc(e, "persist")
  /\ pc' = "done"
  /\ result' = None
  /\ UNCHANGED <<args, df, json_data, out_file, history, api, web>>

\* line 107 raises OSError after open truncated the file: a part of the
\* text is written, the except branch of line 115 returns None
DumpFails ==
  /\ pc = "convert"
  /\ Len(json_data) = Len(df.index)
  /\ output_json_path # NoPath
  /\ \E k \in {0, Len(JsonDump(json_data)) \div 2} :
       out_file' = OutFile(SubSeq(JsonDump(json_data), 1, k))
  /\ exc' = Exc("OSError", "persist")
  /\ pc' = "done"
  /\ result' = None
  /\ UNCHANGED <<args, df, json_data, history, api, web>>

\* the arguments and the outcome of the call that ended
ThisCall ==
  [sheet |-> sheet, report_type |-> report_type,
   output_json_path |-> output_json_path,
   exc |-> exc, result |-> result, out_file |-> out_file]

\* the caller calls parse_excel_to_json once more
CallAgain ==
  /\ pc = "done"
  /\ hpc = "direct"
  /\ calls < MaxCalls
  /\ sheet' \in CallFiles
  /\ report_type' \in CallTypes
  /\ output_json_path' \in OutputPaths
  /\ pc' = "read"
  /\ df' = EmptyFrame
  /\ json_data' = << >>
  /\ exc' = NoExc
  /\ result' = Pending
  /\ calls' = calls + 1
  /\ prev' = ThisCall
  /\ UNCHANGED <<out_file, api, web>>

InitCalls ==
  /\ sheet \in CallFiles
  /\ report_type \in CallTypes
  /\ output_json_path \in OutputPaths
  /\ Entered
  /\ Direct

NextCalls ==
  \/ LoadFrame \/ LoadFails \/ SkipTotalRow \/ ConvertRow \/ ConvertFails
  \/ ReturnData \/ WriteJson \/ OpenFails \/ DumpFails \/ CallAgain

SpecCalls == InitCalls /\ [][NextCalls]_vars

-----------------------------------------------------------------------------
(* The file locators of core/utils.py and the GET handlers of the routes *)

\* at most this many files in the downloads directory
MaxFiles == 2

\* DOWNLOADS_DIR
DownloadsDir == <<".", "/", "d", "o", "w", "n", "l", "o", "a", "d", "s">>
Extension == <<".", "x", "l", "s", "x">>

Endpoints == {"catalogados", "stockdetalle", "mermasventas"}

\* the texts a locator looks for in the lowercased file name
Substrings(kind) ==
  CASE kind = "catalogados" -> {<<"c", "a", "t", "a", "l", "o", "g", "a", "d", "o", "s">>}
    [] kind = "stockdetalle" ->
         {<<"s", "t", "o", "c", "k", "d", "e", "t", "a", "l", "l", "e">>,
          <<"s", "t", "o", "c", "k", "_", "d", "e", "t", "a", "l", "l", "e">>}
    [] kind = "mermasventas" ->
         {<<"m", "e", "r", "m", "a", "s", "v", "e", "n", "t", "a", "s">>,
          <<"m", "e", "r", "m", "a", "s", "_", "v", "e", "n", "t", "a", "s">>,
          <<"m", "e", "r", "m", "a", "s", " ", "y", " ", "v", "e", "n", "t", "a", "s">>,
          <<"m", "e", "r", "m", "a", "s">>}

\* sub in s
Contains(s, sub) ==
  \E i \in 1..(Len(s) - Len(sub) + 1) : SubSeq(s, i, i + Len(sub) - 1) = sub

\* s.endswith(suf)
EndsWith(s, suf) ==
  Len(s) >= Len(suf) /\ SubSeq(s, Len(s) - Len(suf) + 1, Len(s)) = suf

\* the test of a file name without .lower()
MatchesCaseSensitive(kind, filename) ==
  /\ \E sub \in Substrings(kind) : Contains(filename, sub)
  /\ EndsWith(filename, Extension)

\* the test of a file name: lines 134, 162 and 191-195
Matches(kind, filename) ==
  /\ \E sub \in Substrings(kind) : Contains(Lower(filename), sub)
  /\ EndsWith(filename, Extension)

\* os.path.join(DOWNLOADS_DIR, filename)
JoinPath(filename) == DownloadsDir \o <<"/">> \o filename

\* the files of the directory that pass the test, in the order of os.listdir
Candidates(kind, files) == SelectSeq(files, LAMBDA f : Matches(kind, f.name))

\* max(files, key=lambda x: x[1]): the first file with the greatest time
MaxByMtime(files) ==
  files[CHOOSE i \in 1..Len(files) :
          /\ \A k \in 1..Len(files) : files[k].mtime <= files[i].mtime
          /\ \A k \in 1..(i - 1) : files[k].mtime < files[i].mtime]

\* find_latest_catalogados_file, find_latest_stockdetalle_file and
\* find_latest_mermasventas_file: None, or the path of the latest file
FindLatest(kind, dir) ==
  IF ~dir.exists THEN None
  ELSE IF Candidates(kind, dir.files) = << >> THEN None
  ELSE PyStr(JoinPath(MaxByMtime(Candidates(kind, dir.files)).name))

\* The files the downloads directory can hold, each with what it contains
DownloadFiles ==
  { [name |-> <<"c", "a", "t", "a", "l", "o", "g", "a", "d", "o", "s", "_", "a", ".", "x", "l", "s", "x">>,
     content |-> SheetLunes45],
    [name |-> <<"C", "A", "T", "A", "L", "O", "G", "A", "D", "O", "S", "_", "b", ".", "x", "l", "s", "x">>,
     content |-> SheetNoRows],
    [name |-> <<"c", "a", "t", "a", "l", "o", "g", "a", "d", "o", "s", "_", "c", ".", "x", "l", "s", "x">>,
     content |-> CorruptFile],
    [name |-> <<"c", "a", "t", "a", "l", "o", "g", "a", "d", "o", "s", ".", "X", "L", "S", "X">>,
     content |-> SheetLunes45],
    [name |-> <<"c", "a", "t", "a", "l", "o", "g", "a", "d", "o", "s", "_", "d", "a", "t", "a", ".", "j", "s", "o", "n">>,
     content |-> CorruptFile],
    [name |-> <<"m", "e", "r", "m", "a", "s", "v", "e", "n", "t", "a", "s", "_", "a", ".", "x", "l", "s", "x">>,
     content |-> SheetLunes45],
    [name |-> <<"M", "e", "r", "m", "a", "s", " ", "y", " ", "V", "e", "n", "t", "a", "s", ".", "x", "l", "s", "x">>,
     content |-> SheetInfinite],
    [name |-> <<"m", "e", "r", "m", "a", "s", ".", "x", "l", "s", "x">>,
     content |-> SheetDuplicate],
    [name |-> <<"s", "t", "o", "c", "k", "d", "e", "t", "a", "l", "l", "e", "_", "a", ".", "x", "l", "s", "x">>,
     content |-> SheetInfinite],
    [name |-> <<"S", "t", "o", "c", "k", "_", "D", "e", "t", "a", "l", "l", "e", ".", "x", "l", "s", "x">>,
     content |-> SheetTwoRows],
    [name |-> <<"s", "t", "o", "c", "k", " ", "d", "e", "t", "a", "l", "l", "e", ".", "x", "l", "s", "x">>,
     content |-> SheetLunes45] }

\* the listings of os.listdir: up to MaxFiles files with different names,
\* each with a modification time 1 or 2
Listings ==
  {fs \in UNION {[1..n -> {[name |-> f.name, content |-> f.content, mtime |-> m] :
                             f \in DownloadFiles, m \in {1, 2}}] : n \in 0..MaxFiles} :
     \A i, k \in 1..Len(fs) : i # k => fs[i].name # fs[k].name}

Directories == {NoDir} \cup {[exists |-> TRUE, files |-> fs] : fs \in Listings}

\* the file a path of the directory names
FileAt(dir, path) ==
  IF \E i \in 1..Len(dir.files) : JoinPath(dir.files[i].name) = path
  THEN dir.files[CHOOSE i \in 1..Len(dir.files) :
                   JoinPath(dir.files[i].name) = path].content
  ELSE MissingFile

\* the report_type the GET handler passes to parse_excel_to_json
HandlerReportType(ep) ==
  CASE ep = "catalogados" -> "None"
    [] ep = "stockdetalle" -> "stockdetalle"
    [] ep = "mermasventas" -> "mermasventas"

\* "report_type" of the response
ReportLabel(ep) ==
  CASE ep = "catalogados" -> "catalogados"
    [] ep = "stockdetalle" -> "stocksdetalle"
    [] ep = "mermasventas" -> "mermasventas"

NoContent == [status |-> "none"]
\* raise HTTPException(status_code, detail)
HttpError(status, detail) == [status |-> status, detail |-> detail, content |-> NoContent]
\* return JSONResponse(content)
JsonResponse(content) == [status |-> 200, detail |-> "", content |-> content]

\* json.dumps(allow_nan=False) of JSONResponse refuses the records
NotJsonCompliant(records) ==
  \E r \in 1..Len(records) : \E p \in 1..Len(records[r]) :
    IsInf(records[r][p].val) \/ records[r][p].val = NaN

\* every envelope tagged as an existing file
EnvelopeExistingFile(source, ep, data) ==
  [status |-> "success",
   message |-> "Datos obtenidos exitosamente",
   timestamp |-> "datetime.now().isoformat()",
   source |-> "existing_file",
   report_type |-> ReportLabel(ep),
   total_records |-> Len(data),
   data |-> data]

\* lines 170-178 and 212-221: the content of a success response; the
\* timestamp is the text of the clock at that moment
Envelope(source, ep, data) ==
  [status |-> "success",
   message |-> IF source = "existing_file" THEN "Datos obtenidos exitosamente"
               ELSE "Scraping completado exitosamente",
   timestamp |-> "datetime.now().isoformat()",
   source |-> source,
   report_type |-> ReportLabel(ep),
   total_records |-> Len(data),
   data |-> data]

\* lines 166-184 of the handler: what it answers after the call returned
Answer(ep, res) ==
  IF res = None \/ res = ListOf(<< >>)
  THEN HttpError(500, "Error al procesar el archivo Excel")
  ELSE IF NotJsonCompliant(res.data) THEN HttpError(500, "Error interno")
  ELSE JsonResponse(Envelope("existing_file", ep, res.data))

\* parse_excel_to_json is not called yet
Unset == [kind |-> "unset", headers |-> << >>, rows |-> << >>]

\* a GET request arrives
InitGet ==
  /\ downloads \in Directories
  /\ endpoint \in Endpoints
  /\ hpc = "locate"
  /\ excel_file = None
  /\ response = NoResponse
  /\ sheet = Unset
  /\ report_type = "None"
  /\ output_json_path = NoPath
  /\ pc = "idle"
  /\ df = EmptyFrame
  /\ json_data = << >>
  /\ exc = NoExc
  /\ result = Pending
  /\ out_file = NoOutFile
  /\ calls = 0
  /\ prev = NoCall
  /\ posts = << >>
  /\ loop = "free"
  /\ retry = << >>

\* lines 147-152: the locator runs
GetLocate ==
  /\ hpc = "locate"
  /\ excel_file' = FindLatest(endpoint, downloads)
  /\ hpc' = "located"
  /\ UNCHANGED <<args, locals, out_file, history, downloads, endpoint, response, web>>

\* the 404 caught by `except Exception` and answered as an internal error
GetNotFoundWrapped ==
  /\ loop = "free"
  /\ hpc = "located"
  /\ excel_file = None
  /\ response' = HttpError(500, "Error interno")
  /\ hpc' = "done"
  /\ UNCHANGED <<args, locals, out_file, history, downloads, endpoint, excel_file, web>>

\* lines 154-158 and 181-182: no file, the handler answers 404
GetNotFound ==
  /\ loop = "free"
  /\ hpc = "located"
  /\ excel_file = None
  /\ response' = HttpError(404, "Ejecute POST primero para generar datos")
  /\ hpc' = "done"
  /\ UNCHANGED <<args, locals, out_file, history, downloads, endpoint, excel_file, web>>

\* lines 160-164: parse_excel_to_json(excel_file, report_type=...) is called
GetParse ==
  /\ loop = "free"
  /\ hpc = "located"
  /\ excel_file # None
  /\ sheet' = FileAt(downloads, excel_file.s)
  /\ report_type' = HandlerReportType(endpoint)
  /\ pc' = "read"
  /\ calls' = calls + 1
  /\ hpc' = "parsing"
  /\ UNCHANGED <<output_json_path, df, json_data, exc, result, out_file, prev,
                 downloads, endpoint, excel_file, response, web>>

\* lines 166-184: the call returned, the handler answers
GetRespond ==
  /\ loop = "free"
  /\ hpc = "parsing"
  /\ pc = "done"
  /\ response' = Answer(endpoint, result)
  /\ hpc' = "done"
  /\ UNCHANGED <<args, locals, out_file, history, downloads, endpoint, excel_file, web>>

NextGet ==
  \/ GetLocate \/ GetNotFound \/ GetParse
  \/ LoadFrame \/ LoadFails \/ SkipTotalRow \/ ConvertRow \/ ConvertFails
  \/ ReturnData \/ GetRespond

SpecGet == InitGet /\ [][NextGet]_vars

-----------------------------------------------------------------------------
(* What the claims speak of, read off the source sheet and the result *)

\* the call returned a record list
Returned == pc = "done" /\ result.t = "list"

\* the first data row is a total row: the text of its first cell, trimmed
\* and lowercased, is "total"
FirstRowIsTotal ==
  /\ Len(sheet.rows) > 0
  /\ Len(sheet.headers) > 0
  /\ Lower(Strip(CellText(sheet.rows[1][1]))) = TotalToken

\* the number of source rows before the first remaining row
SourceOffset == IF FirstRowIsTotal THEN 1 ELSE 0

\* the number of data rows that remain after the total-row drop
Remaining == Len(sheet.rows) - SourceOffset

\* row_dict[key]
DictGet(dict, key) == dict[CHOOSE p \in 1..Len(dict) : dict[p].key = key].val

\* the source cell of record r (1-based) in column j
SourceCell(r, j) == sheet.rows[r + SourceOffset][j]

\* the emitted value of record r in column j
Emitted(r, j) == DictGet(result.data[r], Strip(sheet.headers[j]))

\* the value record r's row holds in column j when the transform reads it
Loaded(r, j) == RowSeries(df, r)[j]

\* the positions of the columns whose stripped header is the given name
ColumnsKeyed(name) ==
  {j \in 1..Len(sheet.headers) : Strip(sheet.headers[j]) = name}

\* the positions of the columns whose header is exactly the given name
ColumnsNamed(name) == {j \in 1..Len(sheet.headers) : sheet.headers[j] = name}

Padded45 == Zeros(16) \o <<"4", "5">>

-----------------------------------------------------------------------------
(* The claims *)

\* C1: if N data rows remain after the total-row drop, the call returns
\* exactly N records whose n fields are 1, 2, ..., N in order.
C1_SequenceNumbers ==
  Returned =>
    /\ Len(result.data) = Remaining
    /\ \A r \in 1..Len(result.data) :
         DictGet(result.data[r], ColN) = PyInt(FALSE, DigitsOf(r))

\* The numbering of C1 on the sheets that have no column named n.
SequenceNumbersWithoutNColumn ==
  (Returned /\ \A j \in 1..Len(sheet.headers) : Strip(sheet.headers[j]) # ColN) =>
    /\ Len(result.data) = Remaining
    /\ \A r \in 1..Len(result.data) :
         DictGet(result.data[r], ColN) = PyInt(FALSE, DigitsOf(r))

\* C2: the first data row is dropped before numbering if and only if its
\* first-column value, trimmed and lowercased, is exactly "total"; the
\* dropped row consumes no sequence number (the remaining rows are labelled
\* 0, 1, ... so the first of them becomes record 1), and a first row that
\* only contains the token is kept as the first row: the records follow the
\* remaining rows, the first of them first.
C2_TotalRowDrop ==
  pc \in {"convert", "done"} =>
    /\ (Len(df.index) = Len(sheet.rows) - 1) <=> FirstRowIsTotal
    /\ Len(df.index) = Remaining
    /\ \A i \in 1..Len(df.index) : df.index[i] = i - 1
    /\ \A j \in 1..Len(df.cols) : \A i \in 1..Len(df.index) :
         (df.cols[j].vals[i] = NaN) <=> IsNaCell(SourceCell(i, j))
    /\ Returned =>
         \A r \in 1..Len(result.data) :
           LET c == SourceCell(r, 1)
           IN  (c.k = "text" /\ ~IsNaCell(c) /\ ~IsNumText(c.s)) =>
                 Emitted(r, 1) = PyStr(Strip(c.s))

C2_Witness ==
  /\ Returned
  /\ Len(sheet.rows) = 2
  /\ sheet.rows[1][1] = TextCell(TxtTotalPadded)
  /\ sheet.rows[2][1] = TextCell(TxtTotalSales)
  /\ Len(result.data) = 1
  /\ DictGet(result.data[1], ColDia) = PyStr(TxtTotalSales)

\* C3: at most one row is dropped, and only the row at data position 0: a
\* row whose first column is "total" at a later position, also right after a
\* dropped one, is emitted as a record.
C3_AtMostOneDrop ==
  /\ pc \in {"convert", "done"} => Len(df.index) >= Len(sheet.rows) - 1
  /\ Returned =>
       /\ Len(result.data) >= Len(sheet.rows) - 1
       /\ \A i \in 2..Len(sheet.rows) :
            Lower(Strip(CellText(sheet.rows[i][1]))) = TotalToken =>
              /\ i - SourceOffset \in 1..Len(result.data)
              /\ Lower(StrOf(Emitted(i - SourceOffset, 1))) = TotalToken

C3_Witness ==
  /\ Returned
  /\ Len(sheet.rows) = 2
  /\ sheet.rows[1][1] = TextCell(TxtTotalPadded)
  /\ sheet.rows[2][1] = TextCell(TxtTotalPadded)
  /\ Len(result.data) = 1

\* C4: for every report type, every cell of the Artículo column that is not
\* empty/NaN-equivalent is emitted as a string equal to the trimmed source
\* text, never as a number: "00012" is emitted as the string "00012".
C4_ArticuloIsText ==
  Returned =>
    \A j \in ColumnsNamed(ColArticulo) : \A r \in 1..Len(result.data) :
      ~IsNaCell(SourceCell(r, j)) =>
        Emitted(r, j) = PyStr(Strip(CellText(SourceCell(r, j))))

C4_Witness ==
  /\ Returned
  /\ \E j \in ColumnsNamed(ColArticulo) : \E r \in 1..Len(result.data) :
       /\ SourceCell(r, j) = TextCell(Txt00012)
       /\ Emitted(r, j) = PyStr(Txt00012)

\* C5: an Artículo ID cell with the number 45 is emitted as the 18-character
\* string "000000000000000045" under mermasventas, and under every other
\* report type by the universal rule without zero-padding: as the number 45
\* or its plain text.
C5_PaddingOnlyForMermasVentas ==
  Returned =>
    \A j \in ColumnsKeyed(ColArticuloID) : \A r \in 1..Len(result.data) :
      SourceCell(r, j) = Num45 =>
        IF report_type = "mermasventas"
        THEN Emitted(r, j) = PyStr(Padded45) /\ Len(Emitted(r, j).s) = 18
        ELSE StrOf(Emitted(r, j)) \in {<<"4", "5">>, <<"4", "5", ".", "0">>}

C5_Witness ==
  /\ Returned
  /\ report_type = "mermasventas"
  /\ \E j \in ColumnsNamed(ColArticuloID) : \E r \in 1..Len(result.data) :
       SourceCell(r, j) = Num45 /\ Emitted(r, j) = PyStr(Padded45)

C7_FractionDropped ==
  (Returned /\ report_type = "mermasventas") =>
    \A j \in ColumnsKeyed(ColArticuloID) : \A r \in 1..Len(result.data) :
      LET c == SourceCell(r, j)
      IN  (c.k = "num" /\ c.fp # << >>) =>
            Emitted(r, j) = PyStr(Format018(PyInt(c.neg, c.ip)))

\* C8: in every column an empty/NaN-equivalent source cell is emitted as
\* null, never as the string "nan", "None" or "null".
C8_MissingIsNull ==
  Returned =>
    \A j \in 1..Len(sheet.headers) : \A r \in 1..Len(result.data) :
      IsNaCell(SourceCell(r, j)) =>
        /\ Emitted(r, j) = None
        /\ Emitted(r, j) \notin
             {PyStr(NanText), PyStr(<<"N", "o", "n", "e">>), PyStr(<<"n", "u", "l", "l">>)}

C8_Witness ==
  /\ Returned
  /\ report_type = "mermasventas"
  /\ \E r \in 1..Len(result.data) :
       /\ \E j \in ColumnsNamed(ColArticuloID) :
            SourceCell(r, j) = EmptyCell /\ Emitted(r, j) = None
       /\ \E j \in ColumnsNamed(ColCantidad) :
            SourceCell(r, j) = EmptyCell /\ Emitted(r, j) = None

\* C9: every emitted record has as its keys the stripped source column
\* names plus n, with n first and the columns in source order, and carries
\* the sequence number under n whatever the source columns are called.
C9_KeysAndSequenceField ==
  Returned =>
    \A r \in 1..Len(result.data) :
      LET rec == result.data[r]
          others == {j \in 1..Len(sheet.headers) : Strip(sheet.headers[j]) # ColN}
      IN  /\ {rec[p].key : p \in 1..Len(rec)} =
               {ColN} \cup {Strip(sheet.headers[j]) : j \in 1..Len(sheet.headers)}
          /\ rec[1].key = ColN
          /\ rec[1].val = PyInt(FALSE, DigitsOf(r))
          /\ \A j, k \in others :
               j < k =>
                 (CHOOSE p \in 1..Len(rec) : rec[p].key = Strip(sheet.headers[j]))
                   < (CHOOSE p \in 1..Len(rec) : rec[p].key = Strip(sheet.headers[k]))

\* C10: outside the Artículo column and the Artículo ID rule of
\* mermasventas, a numeric value that is not NaN is emitted unchanged, an
\* integer as an integer and a float as a float, and every other value that
\* is not null as its text with the surrounding whitespace stripped.
C10_UniversalRule ==
  Returned =>
    \A j \in 1..Len(sheet.headers) : \A r \in 1..Len(result.data) :
      LET column == Strip(sheet.headers[j])
          v == Loaded(r, j)
      IN  (/\ column # ColArticulo
           /\ ~(column = ColArticuloID /\ report_type = "mermasventas")
           /\ ~IsMissing(v)) =>
            IF v.t \in {"int", "npint", "float"}
            THEN Emitted(r, j).t \in {"int", "npint", "float"}
                 /\ StrOf(Emitted(r, j)) = StrOf(v)
            ELSE Emitted(r, j) = PyStr(Strip(StrOf(v)))

\* the call ended with the records of the key column left aside equal to
\* those of the other result
SameButColumn(a, b, key) ==
  /\ a.t = "list" /\ b.t = "list"
  /\ Len(a.data) = Len(b.data)
  /\ \A r \in 1..Len(a.data) :
       /\ Len(a.data[r]) = Len(b.data[r])
       /\ \A p \in 1..Len(a.data[r]) :
            /\ a.data[r][p].key = b.data[r][p].key
            /\ a.data[r][p].key # key => a.data[r][p].val = b.data[r][p].val

\* C11: catalogados, stockdetalle, an absent and an unrecognized report
\* type give the same result for every sheet; mermasventas changes only the
\* values of the Artículo ID column.
C11_OnlyArticuloIDDiffers ==
  pc = "done" =>
    /\ \A rt \in ReportTypes \ {"mermasventas"} :
         Normalize(sheet, rt) = Normalize(sheet, "None")
    /\ report_type # "mermasventas" => result = Normalize(sheet, "None")
    /\ report_type = "mermasventas" =>
         \/ result = Normalize(sheet, "None")
         \/ SameButColumn(result, Normalize(sheet, "None"), ColArticuloID)

\* the part of C11 the code keeps: the four report types other than
\* mermasventas give the same result
OtherReportTypesAgree ==
  (pc = "done" /\ report_type # "mermasventas") =>
    \A rt \in ReportTypes \ {"mermasventas"} : result = Normalize(sheet, rt)

\* C11 where the rows keep Python objects under both report types (a column
\* of texts beside the Artículo ID column) and no row raises
OnlyArticuloIDDiffersInObjectRows ==
  (/\ Returned
   /\ report_type = "mermasventas"
   /\ Normalize(sheet, "None").t = "list"
   /\ \E j \in 1..Len(sheet.headers) :
        ReadColumn([i \in 1..Len(sheet.rows) |-> sheet.rows[i][j]], FALSE).dtype
          = "object") =>
    SameButColumn(result, Normalize(sheet, "None"), ColArticuloID)

\* C12: a path that names no file ends in the failure value None through
\* the FileNotFoundError branch; the call does not raise and does not
\* return a list, empty or not.
C12_MissingFileFails ==
  (pc = "done" /\ sheet.kind = "missing") =>
    /\ result = None
    /\ result # ListOf(<< >>)
    /\ exc = Exc("FileNotFoundError", "read")

C12_Witness == pc = "done" /\ sheet = MissingFile /\ result = None

\* the outcome of a call as the caller is to tell it
Outcome(call) ==
  IF call.result.t = "list" THEN "Success"
  ELSE IF call.exc = Exc("FileNotFoundError", "read") THEN "NotFound"
  ELSE IF call.exc.at \in {"read", "convert"} THEN "ParseError"
  ELSE "PersistError"

\* C13: a missing input file, a parse error and a successful empty result
\* are told apart by what the call returns: two calls with different
\* outcomes among these never return the same value.
C13_OutcomesDistinguishable ==
  (pc = "done" /\ prev # NoCall) =>
    LET a == Outcome(prev)
        b == Outcome(ThisCall)
    IN  ({a, b} \subseteq {"Success", "NotFound", "ParseError"} /\ a # b) =>
          result # prev.result

\* C14: when writing the JSON file fails after all records were built, the
\* call still returns the records.
C14_PersistFailureKeepsRecords ==
  (pc = "done" /\ exc.at = "persist") => result = ListOf(json_data)

\* C15: a call that ends with a parse or format error returns None, never
\* the records built before the error; a returned list holds a record for
\* every row of the frame.
C15_AllOrNothing ==
  /\ (pc = "done" /\ exc.at \in {"read", "convert"}) => result = None
  /\ Returned => Len(result.data) = Len(df.index)

C15_Witness ==
  /\ pc = "done"
  /\ exc.at = "convert"
  /\ Len(json_data) > 0
  /\ result = None

\* C16: the transform of a cell never raises, so a workbook that loads is
\* never answered with a failure because of one of its cells.
C16_TransformNeverFails ==
  /\ pc \in {"convert", "done"} =>
       \A r \in 1..Len(df.index) : RaisingColumns(df, r, report_type) = {}
  /\ (pc = "done" /\ sheet.kind = "xlsx" /\ ~Ambiguous(df)) => result.t = "list"

\* the call before this one had the same file and the same report type,
\* and neither call failed to write its output file
SameCallTwice ==
  /\ prev # NoCall
  /\ prev.sheet = sheet
  /\ prev.report_type = report_type
  /\ exc.at # "persist"
  /\ prev.exc.at # "persist"

RepeatedCallsAgreeWhateverTheDisk ==
  (/\ pc = "done"
   /\ prev # NoCall
   /\ prev.sheet = sheet
   /\ prev.report_type = report_type) => result = prev.result

\* C18: after a call with an output path that returned its records, the
\* file holds the JSON array of exactly these records in order, whatever it
\* held before.
C18_FileHoldsLatestRecords ==
  (pc = "done" /\ output_json_path # NoPath /\ result.t = "list") =>
    out_file = OutFile(JsonDump(result.data))

C18_Witness ==
  /\ pc = "done"
  /\ output_json_path # NoPath
  /\ result.t = "list"
  /\ prev # NoCall
  /\ prev.out_file.exists
  /\ prev.out_file # out_file
  /\ out_file = OutFile(JsonDump(result.data))

\* the substrings that name a report kind in a file name
KindSubstrings(kind) ==
  CASE kind = "catalogados" -> {<<"c", "a", "t", "a", "l", "o", "g", "a", "d", "o", "s">>}
    [] kind = "stockdetalle" ->
         {<<"s", "t", "o", "c", "k", "d", "e", "t", "a", "l", "l", "e">>,
          <<"s", "t", "o", "c", "k", "_", "d", "e", "t", "a", "l", "l", "e">>}
    [] kind = "mermasventas" -> {<<"m", "e", "r", "m", "a", "s">>}

\* the positions of the directory's files whose name, compared without
\* regard to case, contains a substring of the kind and ends in .xlsx
Eligible(kind, dir) ==
  {i \in 1..Len(dir.files) :
     /\ \E sub \in KindSubstrings(kind) : Contains(Lower(dir.files[i].name), sub)
     /\ EndsWith(dir.files[i].name, Extension)}

\* C19: the locator of a report kind returns the path of a most recently
\* modified file among the eligible files of the downloads directory, and
\* None exactly when the directory is missing or no file is eligible.
C19_LocatorFindsLatest ==
  hpc \in {"located", "parsing", "done"} =>
    LET el == Eligible(endpoint, downloads)
    IN  /\ (excel_file = None) <=> (~downloads.exists \/ el = {})
        /\ excel_file # None =>
             \E i \in el :
               /\ excel_file = PyStr(JoinPath(downloads.files[i].name))
               /\ \A k \in el : downloads.files[k].mtime <= downloads.files[i].mtime

C19_Witness ==
  /\ hpc = "located"
  /\ Len(downloads.files) = 2
  /\ Eligible(endpoint, downloads) = {1, 2}
  /\ downloads.files[1].mtime < downloads.files[2].mtime
  /\ downloads.files[2].name # Lower(downloads.files[2].name)
  /\ excel_file = PyStr(JoinPath(downloads.files[2].name))

\* C20: in a GET handler, when the locator returned None the normalizer is
\* never called and the answer is 404; when the normalizer was called and
\* returned the failure value, the answer is 500 and no success envelope.
C20_GetFailures ==
  /\ (hpc # "locate" /\ excel_file = None) => (pc = "idle" /\ calls = 0)
  /\ (hpc = "done" /\ excel_file = None) =>
       (response.status = 404 /\ response.content = NoContent)
  /\ (hpc = "done" /\ pc = "done" /\ result = None) =>
       (response.status = 500 /\ response.content = NoContent)

C20_Witness ==
  /\ hpc = "done"
  /\ endpoint = "mermasventas"
  /\ pc = "done"
  /\ exc.at = "convert"
  /\ result = None
  /\ response.status = 500

\* the other case of C20 is reached as well: no file, answer 404
NotFoundAnswered ==
  /\ hpc = "done"
  /\ downloads.exists
  /\ Len(downloads.files) = 2
  /\ excel_file = None
  /\ response.status = 404

-----------------------------------------------------------------------------
(* The POST handlers of the routes and their acquisition runs, beside a GET
   request, on the one event loop of the server *)

\* the POST requests in flight
Requests == {"r1", "r2"}

\* the steps inside the try block of main_catalogados, main_stockdetalle
\* and main_mermasventas, in the order of the code
Steps(kind) ==
  IF kind = "mermasventas"
  THEN <<"login", "report", "run", "share", "export", "final_export">>
  ELSE <<"login", "report", "cadenas", "run", "share", "export", "final_export">>

\* what the portal hands out: the workbook and download.suggested_filename
Exports ==
  {[content |-> SheetLunes45, suggested |-> <<n, ".", "x", "l", "s", "x">>] :
     n \in {"a", "b"}}
  \cup {[content |-> SheetNoRows, suggested |-> <<"a", ".", "x", "l", "s", "x">>]}

\* f"{report_type}_report_{suggested_filename}" and f"{report_type}_data.json"
NamedFor(kind, tail) ==
  (CASE kind = "catalogados" -> <<"c", "a", "t", "a", "l", "o", "g", "a", "d", "o", "s">>
     [] kind = "stockdetalle" -> <<"s", "t", "o", "c", "k", "d", "e", "t", "a", "l", "l", "e">>
     [] kind = "mermasventas" -> <<"m", "e", "r", "m", "a", "s", "v", "e", "n", "t", "a", "s">>)
  \o tail

\* the entry of the directory a path names
EntryAt(dir, path) ==
  dir.files[CHOOSE i \in 1..Len(dir.files) : JoinPath(dir.files[i].name) = path]

\* a file is written under a name: the directory is made if it is missing,
\* a file of that name is replaced, the modification time is the latest
Saved(dir, name, content) ==
  LET latest == IF dir.files = << >> THEN 0
                ELSE MaxByMtime(dir.files).mtime
      entry == [name |-> name, content |-> content, mtime |-> latest + 1]
  IN  [exists |-> TRUE,
       files |-> IF \E i \in 1..Len(dir.files) : dir.files[i].name = name
                 THEN [i \in 1..Len(dir.files) |->
                         IF dir.files[i].name = name THEN entry ELSE dir.files[i]]
                 ELSE Append(dir.files, entry)]

\* a request that has not arrived
NoPost ==
  [pc |-> "idle", kind |-> "none", trace |-> << >>, raised |-> "none",
   playwright |-> "none", browser |-> "none", handle |-> FALSE,
   download_path |-> None, saved |-> None, read |-> None,
   json_data |-> Pending, response |-> NoResponse]

\* the server with a GET request arriving and no POST request yet; the
\* directory is missing or holds one file that is not a good workbook
InitApi ==
  /\ downloads \in {d \in Directories :
                      \/ ~d.exists
                      \/ /\ Len(d.files) = 1
                         /\ d.files[1].content \in {SheetNoRows, CorruptFile, SheetDuplicate}
                         /\ d.files[1].mtime = 1}
  /\ endpoint \in Endpoints
  /\ IF downloads.exists THEN FindLatest(endpoint, downloads) # None
     ELSE endpoint = "catalogados"
  /\ hpc = "locate"
  /\ excel_file = None
  /\ response = NoResponse
  /\ sheet = Unset
  /\ report_type = "None"
  /\ output_json_path = NoPath
  /\ pc = "idle"
  /\ df = EmptyFrame
  /\ json_data = << >>
  /\ exc = NoExc
  /\ result = Pending
  /\ out_file = NoOutFile
  /\ calls = 0
  /\ prev = NoCall
  /\ posts = [r \in Requests |-> NoPost]
  /\ loop = "free"
  /\ retry = << >>

\* catalogados.py lines 192-200: a POST request arrives and hands the
\* acquisition run of its report to an executor. r1 names the request that
\* arrives first; the handler and the run of stockdetalle are those of
\* catalogados with another report name
PostStart(r) ==
  /\ loop = "free"
  /\ posts[r].pc = "idle"
  /\ r = "r2" => posts["r1"].pc # "idle"
  /\ \E kind \in {"catalogados", "mermasventas"} :
       posts' = [posts EXCEPT ![r] = [@ EXCEPT !.pc = "running", !.kind = kind]]
  /\ UNCHANGED <<args, locals, out_file, history, api, loop, retry>>

\* a step that raises is skipped and the run goes on with the next one
RunStepContinues(r) ==
  LET p == posts[r]
      step == Steps(p.kind)[Len(p.trace) + 1]
  IN  /\ p.pc = "running"
      /\ Len(p.trace) < Len(Steps(p.kind))
      /\ \/ /\ step # "final_export"
            /\ posts' = [posts EXCEPT ![r] =
                 [p EXCEPT !.trace = Append(@, step),
                           !.playwright = IF step = "login" THEN "started" ELSE @,
                           !.browser = IF step = "login" THEN "open" ELSE @,
                           !.handle = (step = "login") \/ @]]
            /\ UNCHANGED downloads
         \/ /\ step = "final_export"
            /\ \E x \in Exports :
                 LET name == NamedFor(p.kind, <<"_", "r", "e", "p", "o", "r", "t", "_">> \o x.suggested)
                     dir == Saved(downloads, name, x.content)
                 IN  /\ downloads' = dir
                     /\ posts' = [posts EXCEPT ![r] =
                          [p EXCEPT !.trace = Append(@, step),
                                    !.download_path = PyStr(JoinPath(name)),
                                    !.saved = EntryAt(dir, JoinPath(name)),
                                    !.browser = "closed",
                                    !.playwright = "stopped",
                                    !.pc = "returned"]]
         \/ /\ \E launched \in (IF step = "login" THEN BOOLEAN ELSE {TRUE}) :
                 posts' = [posts EXCEPT ![r] =
                   [p EXCEPT !.raised = step,
                             !.trace = IF step = "final_export" THEN @ ELSE Append(@, "skipped"),
                             !.pc = IF step = "final_export" THEN "returned" ELSE @,
                             !.playwright = CASE step = "login" -> "started"
                                              [] step = "final_export" -> "stopped"
                                              [] OTHER -> @,
                             !.browser = CASE step = "login" /\ launched -> "open"
                                           [] step = "final_export" /\ @ = "open" -> "closed"
                                           [] OTHER -> @]]
            /\ UNCHANGED downloads
      /\ UNCHANGED <<args, locals, out_file, history, endpoint, hpc, excel_file,
                     response, loop, retry>>

\* catalogados.py lines 77-113 (mermasventas.py 131-167, stockdetalle.py
\* 85-121): the next step of the run. It completes, or it raises and the
\* exception leaves the try block. login (auth.py 6-76) starts the driver
\* and launches the browser (browser.py 50-63) before it looks for the form,
\* and hands them to the run only when it returns; the last step (browser.py
\* 245-262) saves the download under the name made of the report type and
\* the suggested file name and the run returns the path. On the way out the
\* finally block closes the browser and stops the driver the run holds.
RunStep(r) ==
  LET p == posts[r]
      step == Steps(p.kind)[Len(p.trace) + 1]
  IN  /\ p.pc = "running"
      /\ Len(p.trace) < Len(Steps(p.kind))
      /\ \/ /\ step # "final_export"
            /\ posts' = [posts EXCEPT ![r] =
                 [p EXCEPT !.trace = Append(@, step),
                           !.playwright = IF step = "login" THEN "started" ELSE @,
                           !.browser = IF step = "login" THEN "open" ELSE @,
                           !.handle = (step = "login") \/ @]]
            /\ UNCHANGED downloads
         \/ /\ step = "final_export"
            /\ \E x \in Exports :
                 LET name == NamedFor(p.kind, <<"_", "r", "e", "p", "o", "r", "t", "_">> \o x.suggested)
                     dir == Saved(downloads, name, x.content)
                 IN  /\ downloads' = dir
                     /\ posts' = [posts EXCEPT ![r] =
                          [p EXCEPT !.trace = Append(@, step),
                                    !.download_path = PyStr(JoinPath(name)),
                                    !.saved = EntryAt(dir, JoinPath(name)),
                                    !.browser = "closed",
                                    !.playwright = "stopped",
                                    !.pc = "returned"]]
         \/ /\ \E launched \in (IF step = "login" THEN BOOLEAN ELSE {TRUE}) :
                 posts' = [posts EXCEPT ![r] =
                   [p EXCEPT !.raised = step,
                             !.pc = "returned",
                             !.playwright = IF p.handle THEN "stopped" ELSE "started",
                             !.browser = CASE p.handle -> "closed"
                                           [] launched -> "open"
                                           [] OTHER -> "none"]]
            /\ UNCHANGED downloads
      /\ UNCHANGED <<args, locals, out_file, history, endpoint, hpc, excel_file,
                     response, loop, retry>>

\* the handler handing the normalizer to an executor: the loop stays free
PostResumeOffLoop(r) ==
  LET p == posts[r]
  IN  /\ loop = "free"
      /\ p.pc = "returned"
      /\ IF p.raised # "none"
         THEN posts' = [posts EXCEPT ![r] =
                [p EXCEPT !.pc = "done", !.response = HttpError(500, "Error interno")]]
         ELSE IF p.download_path = None
                 \/ FileAt(downloads, p.download_path.s) = MissingFile
         THEN posts' = [posts EXCEPT ![r] =
                [p EXCEPT !.pc = "done",
                          !.response = HttpError(500, "El scraping no pudo descargar el archivo")]]
         ELSE posts' = [posts EXCEPT ![r] = [p EXCEPT !.pc = "parsing"]]
      /\ UNCHANGED <<args, locals, out_file, history, api, loop, retry>>

\* catalogados.py lines 197-206 and 226-228: the run is over and the handler
\* goes on, on the event loop. An exception of the run is answered 500, a
\* missing download as well; otherwise parse_excel_to_json is called where
\* the handler runs.
PostResume(r) ==
  LET p == posts[r]
  IN  /\ loop = "free"
      /\ p.pc = "returned"
      /\ IF p.raised # "none"
         THEN /\ posts' = [posts EXCEPT ![r] =
                   [p EXCEPT !.pc = "done", !.response = HttpError(500, "Error interno")]]
              /\ UNCHANGED loop
         ELSE IF p.download_path = None
                 \/ FileAt(downloads, p.download_path.s) = MissingFile
         THEN /\ posts' = [posts EXCEPT ![r] =
                   [p EXCEPT !.pc = "done",
                             !.response = HttpError(500, "El scraping no pudo descargar el archivo")]]
              /\ UNCHANGED loop
         ELSE /\ posts' = [posts EXCEPT ![r] = [p EXCEPT !.pc = "parsing"]]
              /\ loop' = r
      /\ UNCHANGED <<args, locals, out_file, history, api, retry>>

\* catalogados.py lines 205-206: parse_excel_to_json(download_path,
\* output_json_path) reads the file that is at the path now, and writes the
\* records to {report_type}_data.json unless the file cannot be opened
PostParse(r) ==
  LET p == posts[r]
      res == Normalize(FileAt(downloads, p.download_path.s), HandlerReportType(p.kind))
  IN  /\ p.pc = "parsing"
      /\ \E written \in (IF res = None THEN {FALSE} ELSE BOOLEAN) :
           /\ posts' = [posts EXCEPT ![r] =
                [p EXCEPT !.pc = "parsed",
                          !.read = EntryAt(downloads, p.download_path.s),
                          !.json_data = IF written THEN res ELSE None]]
           /\ downloads' =
                IF written
                THEN Saved(downloads, NamedFor(p.kind, <<"_", "d", "a", "t", "a", ".", "j", "s", "o", "n">>),
                           [kind |-> "json", text |-> JsonDump(res.data)])
                ELSE downloads
      /\ UNCHANGED <<args, locals, out_file, history, endpoint, hpc, excel_file,
                     response, loop, retry>>

\* catalogados.py lines 208-228: the handler answers and leaves the loop
PostRespond(r) ==
  LET p == posts[r]
      res == p.json_data
  IN  /\ p.pc = "parsed"
      /\ posts' = [posts EXCEPT ![r] =
           [p EXCEPT !.pc = "done",
                     !.response =
                       IF res = None \/ res = ListOf(<< >>)
                       THEN HttpError(500, "Error al convertir el archivo Excel a JSON")
                       ELSE IF NotJsonCompliant(res.data)
                       THEN HttpError(500, "Error interno")
                       ELSE JsonResponse(
                              Envelope("fresh_scraping", p.kind, res.data)
                              @@ [file_saved |->
                                    JoinPath(NamedFor(p.kind, <<"_", "d", "a", "t", "a", ".", "j", "s", "o", "n">>))])]]
      /\ loop' = "free"
      /\ UNCHANGED <<args, locals, out_file, history, api, retry>>

NextApi ==
  \/ NextGet
  \/ \E r \in Requests :
       \/ PostStart(r) \/ RunStep(r)
       \/ PostResume(r) \/ PostParse(r) \/ PostRespond(r)

SpecApi == InitApi /\ [][NextApi]_vars

-----------------------------------------------------------------------------
(* wait_for_agentql_element_fast of core/browser.py *)

\* max_retries is at most this
MaxRetries == 3

\* no request, no call of the normalizer, no call of the retry function
InitWait ==
  /\ sheet = Unset
  /\ report_type = "None"
  /\ output_json_path = NoPath
  /\ pc = "idle"
  /\ df = EmptyFrame
  /\ json_data = << >>
  /\ exc = NoExc
  /\ result = Pending
  /\ out_file = NoOutFile
  /\ calls = 0
  /\ prev = NoCall
  /\ downloads = NoDir
  /\ endpoint = "none"
  /\ hpc = "none"
  /\ excel_file = None
  /\ response = NoResponse
  /\ posts = << >>
  /\ loop = "free"
  /\ retry = << >>

\* one more entry in the log of what the call did
Logged(a, ev, out) ==
  [retry EXCEPT !.log = Append(retry.log, [attempt |-> a, ev |-> ev, out |-> out])]

\* lines 8-12: the function is called; `for attempt in range(max_retries)`
WaitBegin ==
  /\ retry = << >>
  /\ \E n \in 0..MaxRetries :
       retry' = [max_retries |-> n, attempt |-> 0, at |-> "for", log |-> << >>,
                 returned |-> "nothing", raised |-> FALSE]
  /\ UNCHANGED <<args, locals, out_file, history, api, posts, loop>>

\* lines 15-18: the attempt begins, the two waits complete or one raises;
\* `except Exception` of lines 39-40 takes the exception
WaitAttempt ==
  /\ retry # << >>
  /\ retry.at = "for"
  /\ retry.attempt < retry.max_retries
  /\ \E out \in {"done", "raises"} :
       retry' = [Logged(retry.attempt, "wait", out) EXCEPT
                   !.at = IF out = "done" THEN "query" ELSE "after"]
  /\ UNCHANGED <<args, locals, out_file, history, api, posts, loop>>

\* an exception of query_elements leaving the function
WaitQueryPropagates ==
  /\ retry # << >>
  /\ retry.at \in {"query", "requery"}
  /\ \E out \in {"elements", "falsy", "raises"} :
       retry' = [Logged(retry.attempt, retry.at, out) EXCEPT
                   !.at = CASE out = "elements" -> "returned"
                            [] out = "raises" -> "returned"
                            [] retry.at = "query" -> "requery"
                            [] OTHER -> "after",
                   !.returned = IF out = "elements" THEN "elements" ELSE @,
                   !.raised = (out = "raises")]
  /\ UNCHANGED <<args, locals, out_file, history, api, posts, loop>>

\* lines 21-40: page.query_elements(query) returns a response that counts
\* as true ("elements") or as false; a true response is returned; a
\* false first response leads to the wait for the network (whose exception
\* the bare except of line 31 swallows) and to the second query; a false
\* second response or an exception ends the attempt
WaitQuery ==
  /\ retry # << >>
  /\ retry.at \in {"query", "requery"}
  /\ \E out \in {"elements", "falsy", "raises"} :
       retry' = [Logged(retry.attempt, retry.at, out) EXCEPT
                   !.at = CASE out = "elements" -> "returned"
                            [] out = "raises" -> "after"
                            [] retry.at = "query" -> "requery"
                            [] OTHER -> "after",
                   !.returned = IF out = "elements" THEN "elements" ELSE @]
  /\ UNCHANGED <<args, locals, out_file, history, api, posts, loop>>

\* lines 42-44: time.sleep(wait_time) if another attempt follows, then the
\* next turn of the loop
WaitPause ==
  /\ retry # << >>
  /\ retry.at = "after"
  /\ retry' = [(IF retry.attempt < retry.max_retries - 1
                THEN Logged(retry.attempt, "sleep", "done") ELSE retry) EXCEPT
                 !.attempt = @ + 1, !.at = "for"]
  /\ UNCHANGED <<args, locals, out_file, history, api, posts, loop>>

\* line 46: the loop is over, return None
WaitGiveUp ==
  /\ retry # << >>
  /\ retry.at = "for"
  /\ retry.attempt >= retry.max_retries
  /\ retry' = [retry EXCEPT !.at = "returned", !.returned = "None"]
  /\ UNCHANGED <<args, locals, out_file, history, api, posts, loop>>

NextWait == WaitBegin \/ WaitAttempt \/ WaitQuery \/ WaitPause \/ WaitGiveUp

SpecWait == InitWait /\ [][NextWait]_vars

-----------------------------------------------------------------------------
(* Claims C21..C30 *)

\* the file at the output path when the current call began
FileBefore == IF prev = NoCall THEN NoOutFile ELSE prev.out_file

\* C24: when a call with an output path fails while the sheet is read
\* (missing or unreadable file) or while a row is converted, the file at the
\* output path is as it was when the call began: not created, not truncated,
\* not rewritten. The file is not touched either while the call is loading
\* and converting.
C24_FailureLeavesFile ==
  /\ (output_json_path # NoPath /\ pc \in {"read", "skip", "convert"}) =>
       out_file = FileBefore
  /\ (output_json_path # NoPath /\ pc = "done" /\ exc.at \in {"read", "convert"}) =>
       (result = None /\ out_file = FileBefore)

\* a second call fails on a row although the first call wrote the document
C24_Witness ==
  /\ calls = 2
  /\ output_json_path # NoPath
  /\ pc = "done"
  /\ exc.at = "convert"
  /\ prev.out_file.exists
  /\ Len(prev.out_file.text) > 2
  /\ out_file = prev.out_file

\* the other failure of C24: a missing file and no document created
MissingKeepsNoFile ==
  /\ output_json_path # NoPath
  /\ pc = "done"
  /\ exc = Exc("FileNotFoundError", "read")
  /\ ~out_file.exists

\* C30: the article code is kept as text whatever blanks its header carries:
\* in every column whose stripped header is Artículo, a cell with the source
\* text "00012" is emitted as the string "00012".
C30_ArticuloHeaderBlanks ==
  Returned =>
    \A j \in ColumnsKeyed(ColArticulo) : \A r \in 1..Len(result.data) :
      SourceCell(r, j) = TextCell(Txt00012) => Emitted(r, j) = PyStr(Txt00012)

\* the case of C30: the header has a trailing blank and "00012" leaves as "12"
LeadingZerosLost ==
  /\ Returned
  /\ sheet.headers = <<ColDia, ColArticulo \o <<" ">> >>
  /\ Len(sheet.rows) = 1
  /\ sheet.rows[1][2] = TextCell(Txt00012)
  /\ Emitted(1, 2) = PyStr(<<"1", "2">>)

\* the entries of the log that belong to attempt a and are of the given kinds
LogOf(a, kinds) ==
  {i \in 1..Len(retry.log) : retry.log[i].attempt = a /\ retry.log[i].ev \in kinds}

\* C29: a call of wait_for_agentql_element_fast makes at most max_retries
\* attempts with at most two queries (and four logged steps) each, so it ends; an
\* unfinished call can always take a step; no exception of a wait or a
\* query leaves it; a true response ends the call at once and is what it
\* returns; None is returned exactly after max_retries attempts without a
\* true response; there is a pause after every attempt but the last, and
\* none after the last.
C29_RetryBounded ==
  retry # << >> =>
    LET n == retry.max_retries
        log == retry.log
    IN  /\ \A i \in 1..Len(log) : log[i].attempt \in 0..(n - 1)
        /\ \A a \in 0..(n - 1) :
             /\ Cardinality(LogOf(a, {"query", "requery"})) <= 2
             /\ Cardinality(LogOf(a, {"wait", "query", "requery", "sleep"})) <= 4
             /\ Cardinality(LogOf(a, {"sleep"})) <= 1
        /\ \A i \in 1..(Len(log) - 1) : log[i].attempt <= log[i + 1].attempt
        /\ ~retry.raised
        /\ retry.at # "returned" => ENABLED NextWait
        /\ \A i \in 1..Len(log) : log[i].out = "elements" =>
             (i = Len(log) /\ retry.at = "returned" /\ retry.returned = "elements")
        /\ retry.at = "returned" =>
             \/ (retry.returned = "elements" /\ log[Len(log)].out = "elements")
             \/ /\ retry.returned = "None"
                /\ \A i \in 1..Len(log) : log[i].out # "elements"
                /\ \A a \in 0..(n - 1) : LogOf(a, {"wait"}) # {}
        /\ LogOf(n - 1, {"sleep"}) = {}
        /\ \A a \in 0..(n - 2) :
             (retry.attempt > a \/ (retry.at = "returned" /\ retry.returned = "None"))
               => LogOf(a, {"sleep"}) # {}

\* three attempts: a wait that raises, a query that raises, two false
\* responses; two pauses; None
C29_Witness ==
  /\ retry # << >>
  /\ retry.max_retries = 3
  /\ retry.at = "returned"
  /\ retry.returned = "None"
  /\ Len(retry.log) = 8
  /\ retry.log[1] = [attempt |-> 0, ev |-> "wait", out |-> "raises"]
  /\ retry.log[4].out = "raises"
  /\ retry.log[8] = [attempt |-> 2, ev |-> "requery", out |-> "falsy"]

\* a true response to the second query of the second attempt is returned
SecondQueryReturned ==
  /\ retry # << >>
  /\ retry.at = "returned"
  /\ retry.returned = "elements"
  /\ retry.log[Len(retry.log)] = [attempt |-> 1, ev |-> "requery", out |-> "elements"]

\* C21: every call of parse_excel_to_json a handler makes runs in an
\* executor and not on the event loop: while the call of a request is in
\* progress, the loop is not held by that request. (The GET handler hands
\* its call to an executor and never holds the loop across it; the loop is
\* only ever held by a POST request.)
C21_NormalizerOffLoop ==
  \A r \in Requests : posts[r].pc = "parsing" => loop # r

\* the case of C21: a POST handler is inside parse_excel_to_json and holds
\* the loop while the other request waits for it
LoopBlockedByParse ==
  /\ posts["r1"].pc = "parsing"
  /\ loop = "r1"
  /\ posts["r2"].pc = "returned"

\* the path a POST request of the kind hands to parse_excel_to_json
OutputPathOf(kind) ==
  JoinPath(NamedFor(kind, <<"_", "d", "a", "t", "a", ".", "j", "s", "o", "n">>))

\* C22: under any interleaving of the requests, no two calls of
\* parse_excel_to_json with an output path are in progress at the same time
\* against the same path: two POST requests of the same kind are never both
\* inside the call, and the call of a GET request has no output path.
C22_OnePersistAtATime ==
  /\ hpc = "parsing" => output_json_path = NoPath
  /\ \A r, s \in Requests :
       (r # s /\ posts[r].pc = "parsing" /\ posts[s].pc = "parsing") =>
         OutputPathOf(posts[r].kind) # OutputPathOf(posts[s].kind)

\* one request is inside the call while the run of the other, for the same
\* output path, is over and its handler waits for the loop; the call of the
\* GET request is in progress as well
C22_Witness ==
  /\ posts["r2"].pc = "parsing"
  /\ posts["r1"].pc = "returned"
  /\ posts["r1"].raised = "none"
  /\ OutputPathOf(posts["r1"].kind) = OutputPathOf(posts["r2"].kind)
  /\ hpc = "parsing"
  /\ pc = "convert"

\* a success envelope with the given provenance tag around the records
WellFormed(content, tag, records) ==
  /\ {"status", "message", "timestamp", "source", "total_records", "data"}
       \subseteq DOMAIN content
  /\ content.status = "success"
  /\ content.message # ""
  /\ content.timestamp # ""
  /\ content.source = tag
  /\ content.data = records
  /\ content.total_records = Len(content.data)

\* C23: every success response carries a status flag, a message, a
\* timestamp, a provenance tag and a record count; the count is the number
\* of records of the embedded sequence, which is what the normalizer
\* returned; the tag is existing_file in the answer of a GET handler and
\* fresh_scraping in the answer of a POST handler.
C23_SuccessEnvelope ==
  /\ (hpc = "done" /\ response.status = 200) =>
       WellFormed(response.content, "existing_file", result.data)
  /\ \A r \in Requests : (posts[r].pc = "done" /\ posts[r].response.status = 200) =>
       WellFormed(posts[r].response.content, "fresh_scraping", posts[r].json_data.data)

\* a POST request and, after it, the GET request were both answered with
\* the one record of the downloaded workbook
C23_Witness ==
  /\ posts["r1"].pc = "done"
  /\ posts["r1"].response.status = 200
  /\ posts["r1"].response.content.source = "fresh_scraping"
  /\ posts["r1"].response.content.total_records = 1
  /\ hpc = "done"
  /\ response.status = 200
  /\ response.content.source = "existing_file"
  /\ response.content.total_records = 1

\* C26: a normalization that produced zero records is answered with a
\* success envelope whose record count is 0, by the POST handlers and by
\* the GET handlers alike.
C26_ZeroRecordsSucceed ==
  /\ (hpc = "done" /\ pc = "done" /\ result = ListOf(<< >>)) =>
       (response.status = 200 /\ response.content.total_records = 0)
  /\ \A r \in Requests : (posts[r].pc = "done" /\ posts[r].json_data = ListOf(<< >>)) =>
       /\ posts[r].response.status = 200
       /\ posts[r].response.content.total_records = 0

\* the case of C26 in a POST handler: the downloaded workbook has headers
\* and no data rows, the records were written, the answer is 500
ZeroRecordsPostFails ==
  /\ posts["r1"].pc = "done"
  /\ posts["r1"].json_data = ListOf(<< >>)
  /\ posts["r1"].saved.content = SheetNoRows
  /\ posts["r1"].read = posts["r1"].saved
  /\ posts["r1"].response.status = 500

\* the case of C26 in a GET handler
ZeroRecordsGetFails ==
  /\ hpc = "done"
  /\ sheet = SheetNoRows
  /\ result = ListOf(<< >>)
  /\ response.status = 500

\* C25: once an acquisition run has returned or raised, no browser it
\* launched is open and the driver it started is stopped, whichever step
\* the run left from, login included.
C25_BrowserClosed ==
  \A r \in Requests : posts[r].pc \in {"returned", "parsing", "parsed", "done"} =>
    /\ posts[r].browser # "open"
    /\ posts[r].playwright # "started"

\* the case of C25: login raised after the browser was launched, the run is
\* over and answered, the browser is open and the driver running
BrowserLeftOpen ==
  /\ posts["r1"].pc = "done"
  /\ posts["r1"].raised = "login"
  /\ posts["r1"].browser = "open"
  /\ posts["r1"].playwright = "started"
  /\ posts["r1"].response.status = 500

\* a run that fails at a later step closes what login handed over
LaterFailureCloses ==
  /\ posts["r1"].pc = "returned"
  /\ posts["r1"].raised = "share"
  /\ posts["r1"].browser = "closed"
  /\ posts["r1"].playwright = "stopped"

\* C27: the workbook a POST request normalizes is the one its own
\* acquisition run saved: the file its call reads is the file of its save,
\* written by no other run in between.
C27_OwnDownloadNormalized ==
  \A r \in Requests : posts[r].read # None => posts[r].read = posts[r].saved

\* the case of C27: both runs saved under the same path, r1 first; r1 then
\* normalized the workbook of r2 and answers with its records
ForeignDownloadNormalized ==
  /\ posts["r1"].pc = "done"
  /\ posts["r2"].pc = "returned"
  /\ posts["r1"].download_path # None
  /\ posts["r1"].download_path = posts["r2"].download_path
  /\ posts["r1"].saved.content = SheetNoRows
  /\ posts["r1"].read = posts["r2"].saved
  /\ posts["r1"].response.status = 200
  /\ posts["r1"].response.content.total_records = 1

\* C28: the steps of an acquisition run complete in the order login,
\* report, chain selection (not for mermasventas), run, share, export to
\* Excel, final export; the run returns a download path only after all of
\* them; when a step raises, no later step is executed, the run has no
\* download path and saved nothing, the exception reaches the handler, the
\* handler never calls the normalizer and answers 500.
C28_StepsInOrder ==
  \A r \in Requests :
    LET p == posts[r]
        steps == Steps(p.kind)
    IN  p.pc # "idle" =>
          /\ Len(p.trace) <= Len(steps)
          /\ \A i \in 1..Len(p.trace) : p.trace[i] = steps[i]
          /\ p.download_path # None =>
               (p.trace = steps /\ p.raised = "none" /\ p.saved # None)
          /\ p.pc \in {"parsing", "parsed"} =>
               (p.raised = "none" /\ p.download_path # None)
          /\ p.raised # "none" =>
               /\ Len(p.trace) < Len(steps)
               /\ p.raised = steps[Len(p.trace) + 1]
               /\ p.pc \in {"returned", "done"}
               /\ p.download_path = None
               /\ p.saved = None
               /\ p.read = None
               /\ p.json_data = Pending
               /\ p.pc = "done" =>
                    (p.response.status = 500 /\ p.response.content = NoContent)

\* a run of mermasventas returned its path after its six steps, and a run
\* of catalogados that raised at the run button was answered 500
C28_Witness ==
  /\ posts["r1"].kind = "mermasventas"
  /\ posts["r1"].pc = "returned"
  /\ posts["r1"].download_path # None
  /\ posts["r1"].trace = <<"login", "report", "run", "share", "export", "final_export">>
  /\ posts["r2"].kind = "catalogados"
  /\ posts["r2"].pc = "done"
  /\ posts["r2"].raised = "run"
  /\ posts["r2"].trace = <<"login", "report", "cadenas">>
  /\ posts["r2"].response.status = 500

=============================================================================
